---- MODULE Spec2Model ----
(***************************************************************************)
(* Behaviour trees of bevy-behaviour-tree-core: the Behaviour nodes        *)
(* (leaf systems, Sequence, Select, Retry), the BehaviourTrees registry    *)
(* and the run_ticks driver that ticks every entity carrying a             *)
(* BehaviourId and no Skip marker once per pass.                           *)
(***************************************************************************)
EXTENDS Integers, Sequences, FiniteSets, TLC

\* ------------------------------------------------------------------ bounds

MaxTrees == 2
\* run calls per entity: on a tree with input-driven leaves, on the others
MaxInputTicks == 4
MaxTicks == 7

\* The entities of the world, in the order of their ids.
Entities == {1, 2}

\* ------------------------------------------------------------------ Status

Status == {"Success", "Failure", "Running"}

\* Outcome of a call that did not return: the call unwound with a panic.
Panic == "Panic"

\* Option: None, or Some(x), as the sequence of what it holds.
None == <<>>

Some(x) == <<x>>

\* ------------------------------------------------------------------ nodes

\* The fields of a node; each type of node uses its own.
Blank ==
    [kind |-> "", system |-> "", until |-> 0, out |-> "", funcs |-> <<>>,
     max_tries |-> 0, condition |-> 0, short_circuit |-> ""]

\* A host system whose output is of type out, as a behaviour: the blanket
\* IntoBehaviour of systems In<Entity> -> S with S: Into<Status>.
LeafOf(sys, until, out_) ==
    [Blank EXCEPT !.kind = "Leaf", !.system = sys, !.until = until, !.out = out_]

Leaf(sys, until) == LeafOf(sys, until, "Status")

\* A host system In<Entity> -> bool, as the condition of a decorator.
ConditionOf(sys, until) ==
    [Blank EXCEPT !.kind = "Condition", !.system = sys, !.until = until, !.out = "bool"]

SequenceOf(funcs) == [Blank EXCEPT !.kind = "Sequence", !.funcs = funcs]

SelectOf(funcs) == [Blank EXCEPT !.kind = "Select", !.funcs = funcs]

RetryOf(func, max_tries) ==
    [Blank EXCEPT !.kind = "Retry", !.funcs = <<func>>, !.max_tries = max_tries]

InvertOf(func) == [Blank EXCEPT !.kind = "Invert", !.funcs = <<func>>]

RunIfWithReturn(func, condition, short_circuit) ==
    [Blank EXCEPT !.kind = "RunIf", !.funcs = <<func>>, !.condition = condition,
                  !.short_circuit = short_circuit]

RunIfOf(func, condition) == RunIfWithReturn(func, condition, "Success")

RetryWhileOf(func, condition) ==
    [Blank EXCEPT !.kind = "RetryWhile", !.funcs = <<func>>, !.condition = condition]

\* CompositeInput::chain and CompositeInput::select of the crate
\* bevy-behaviour-tree, whose composites hold one index each.
ChainOf(funcs) == [Blank EXCEPT !.kind = "Chain", !.funcs = funcs]

CrateSelectOf(funcs) == [Blank EXCEPT !.kind = "CrateSelect", !.funcs = funcs]

\* TodoBehaviour
TodoBehaviour == [Blank EXCEPT !.kind = "Todo"]

\* Decorator::repeat: the behaviour and the number of repeats are dropped.
RepeatOf(func, times) == TodoBehaviour

\* The roots of the behaviours the host programs construct; a node is named
\* by its position in Forest.
InputSequence == 1
InputSelect == 4
TestChain == 7
TestSelect == 10
Succeed2 == 15
Succeed3 == 18
RetryFail3 == 22
RetryFail2 == 24
TestRetry == 26
RetryOnce == 28
RetryInput == 30
RetryZero == 32
RetryWhileInput == 34
TestRetryWhile == 37
InvertRunIf == 40
RunIfFailure == 44
TestInvert == 47
RunIfGuard == 49
BoolLeaf == 52
OptionLeaf == 53
Repeat50 == 54
BasicSequence == 56
BasicSelect == 60
DualSelect == 66
PlainTree == 72
RetryOne == 80
Chained == 82
Selected == 86

\* "user", "user_bool", "user_option" and "user_cond" are arbitrary host
\* systems, whose outputs are inputs of the pass.
Forest ==
    << SequenceOf(<<2, 3>>), Leaf("user", 0), Leaf("user", 0),      \* 1 2 3
       SelectOf(<<5, 6>>), Leaf("user", 0), Leaf("user", 0),        \* 4 5 6
       SequenceOf(<<8, 9>>),                                        \* 7
       Leaf("fail", 0), Leaf("panic_if_run", 0),                    \* 8 9
       SelectOf(<<11, 12, 13, 14>>),                                \* 10
       Leaf("fail", 0), Leaf("fail", 0),                            \* 11 12
       Leaf("has_run", 0), Leaf("panic_if_run", 0),                 \* 13 14
       SequenceOf(<<16, 17>>),                                      \* 15
       Leaf("succeed", 0), Leaf("succeed", 0),                      \* 16 17
       SequenceOf(<<19, 20, 21>>),                                  \* 18
       Leaf("succeed", 0), Leaf("succeed", 0), Leaf("succeed", 0),  \* 19 20 21
       RetryOf(23, 3), Leaf("fail", 0),                             \* 22 23
       RetryOf(25, 2), Leaf("fail", 0),                             \* 24 25
       RetryOf(27, 5), Leaf("counter", 3),                          \* 26 27
       RetryOf(29, 3), Leaf("counter", 2),                          \* 28 29
       RetryOf(31, 3), Leaf("user", 0),                             \* 30 31
       RetryOf(33, 0), Leaf("user", 0),                             \* 32 33
       RetryWhileOf(36, 35),                                        \* 34
       ConditionOf("user_cond", 0), Leaf("user", 0),                \* 35 36
       RetryWhileOf(39, 38),                                        \* 37
       ConditionOf("counter_lt", 5), Leaf("counter", 10),           \* 38 39
       InvertOf(41), RunIfOf(43, 42),                               \* 40 41
       ConditionOf("user_cond", 0), Leaf("user", 0),                \* 42 43
       RunIfWithReturn(46, 45, "Failure"),                          \* 44
       ConditionOf("user_cond", 0), Leaf("user", 0),                \* 45 46
       InvertOf(48), Leaf("succeed", 0),                            \* 47 48
       RunIfWithReturn(51, 50, "Running"),                          \* 49
       ConditionOf("user_cond", 0), Leaf("panic_if_run", 0),        \* 50 51
       LeafOf("user_bool", 0, "bool"),                              \* 52
       LeafOf("user_option", 0, "Option"),                          \* 53
       RepeatOf(55, 50), LeafOf("user_option", 0, "Option"),        \* 54 55
       InvertOf(57), SequenceOf(<<58, 59>>),                        \* 56 57
       Leaf("fail", 0), Leaf("succeed", 0),                         \* 58 59
       SelectOf(<<61, 63, 64>>),                                    \* 60
       InvertOf(62), Leaf("succeed", 0),                            \* 61 62
       LeafOf("never_do_anything", 0, "Option"),                    \* 63
       InvertOf(65), Leaf("fail", 0),                               \* 64 65
       InvertOf(67), SequenceOf(<<68, 70>>),                        \* 66 67
       InvertOf(69), Leaf("user", 0),                               \* 68 69
       InvertOf(71), Leaf("user", 0),                               \* 70 71
       SequenceOf(<<73, 75>>),                                      \* 72
       InvertOf(74), Leaf("user", 0),                               \* 73 74
       RunIfOf(77, 76), ConditionOf("user_cond", 0),                \* 75 76
       SelectOf(<<78, 79>>), Leaf("user", 0), Leaf("user", 0),      \* 77 78 79
       RetryOf(81, 1), Leaf("user", 0),                             \* 80 81
       ChainOf(<<83, 84, 85>>),                                     \* 82
       Leaf("user", 0), Leaf("user", 0), Leaf("user", 0),           \* 83 84 85
       CrateSelectOf(<<87, 88, 89>>),                               \* 86
       Leaf("user", 0), Leaf("user", 0), Leaf("user", 0)            \* 87 88 89
    >>

NodeIds == DOMAIN Forest

KindIds(kind) == {n \in NodeIds : Forest[n].kind = kind}

CompositeIds == KindIds("Sequence") \cup KindIds("Select")

RetryIds == KindIds("Retry")

IndexIds == KindIds("Chain") \cup KindIds("CrateSelect")

IsComposite(n) == Forest[n].kind \in {"Sequence", "Select"}

IsRetry(n) == Forest[n].kind = "Retry"

RECURSIVE Nodes(_)
RECURSIVE NodesOfAll(_, _)

NodesOfAll(funcs, i) ==
    IF i > Len(funcs) THEN {} ELSE Nodes(funcs[i]) \cup NodesOfAll(funcs, i + 1)

\* The nodes of the tree rooted at n.
Nodes(n) ==
    {n} \cup NodesOfAll(Forest[n].funcs, 1)
        \cup (IF Forest[n].condition = 0 THEN {} ELSE {Forest[n].condition})

\* The behaviours each host program has constructed and may register: the
\* programs over input-driven leaves, those of the crate's tests, and a
\* Select beside the inverted Sequence of its inverted branches.
Programs ==
    { {InputSequence, InputSelect}, {TestChain, TestSelect},
      {InputSelect, DualSelect} }

\* The programs of the tests of Retry and of the integration test, and a
\* tree of both composites, Invert and RunIf.
TestPrograms ==
    { {Succeed2, Succeed3}, {RetryFail3, RetryFail2}, {TestRetry, RetryOnce},
      {BasicSequence, BasicSelect}, {PlainTree} }

\* The programs over decorators and over leaves of each output type, and
\* Retry with no retry beside Retry with one try.
DecoratorPrograms ==
    { {RetryInput, RetryZero}, {RetryWhileInput, TestRetryWhile},
      {InvertRunIf, RunIfFailure}, {TestInvert, RunIfGuard},
      {BoolLeaf, OptionLeaf}, {RetryZero, RetryOne} }

\* The programs that exercise the registry: a composite and a decorator of
\* the crate's tests, and the behaviours that panic.
RegistryPrograms == { {Succeed2, TestRetryWhile}, {Repeat50, RunIfGuard} }

\* ------------------------------------------------------------------ state

VARIABLES
    trees,        \* BehaviourTrees.trees: one slot per created tree
    initialized,  \* BehaviourTrees.initialized
    pool,         \* behaviours constructed by the host, not yet registered
    bid,          \* the BehaviourId component of each entity (None: absent)
    skip,         \* the Skip marker of each entity
    indices,      \* Sequence.indices / Select.indices of each composite
    tries,        \* Retry.tries of each Retry
    counter,      \* world: the Counter component of each entity
    has_run,      \* world: the HasRun component of each entity
    panicked,     \* the process unwound with a panic
    initCount,    \* observed: calls of initialize on each node
    inits,        \* observed: the nodes initialized in the last pass, in order
    unready,      \* observed: the nodes run was called on before initialize
    handles,      \* observed: the ids create returned, with their behaviours
    arrived,      \* observed: the pairs of the last pass as the query yielded them
    visited,      \* observed: the pairs of the last pass as behaviour_scope got them
    scoped,       \* observed: the last call of behaviour_scope from inside a scope
    raw,          \* observed: what the leaf systems of each entity's tick returned
    ticks,        \* observed: calls of run on a root for each entity
    trace,        \* observed: the run calls of each entity's tick in the last pass
    outcomes,     \* observed: child results of a composite since its cursor was 0
    index,        \* Chain.index / Select.index of the crate bevy-behaviour-tree
    called        \* observed: the last call of run on one of these two

vars ==
    << trees, initialized, pool, bid, skip, indices, tries, counter, has_run,
       panicked, initCount, inits, unready, handles, arrived, visited, scoped,
       raw, ticks, trace, outcomes, index, called >>

\* ------------------------------------------------------------------ leaves

\* The host systems of the programs above, run for an entity: whether the
\* system sys returned, and what.  The record w carries every variable a
\* call may change; until is the bound a counting system compares with.
HostSystem(sys, until, entity, in, w) ==
    CASE sys = "succeed" -> [returned |-> TRUE, out |-> "Success", w |-> w]
      [] sys = "fail" -> [returned |-> TRUE, out |-> "Failure", w |-> w]
      [] sys = "panic_if_run" -> [returned |-> FALSE, out |-> Panic, w |-> w]
      [] sys = "never_do_anything" -> [returned |-> TRUE, out |-> None, w |-> w]
      [] sys = "user" -> [returned |-> TRUE, out |-> in[entity].status, w |-> w]
      [] sys = "user_bool" -> [returned |-> TRUE, out |-> in[entity].cond, w |-> w]
      [] sys = "user_option" -> [returned |-> TRUE, out |-> in[entity].option, w |-> w]
      [] sys = "user_cond" -> [returned |-> TRUE, out |-> in[entity].cond, w |-> w]
      [] sys = "has_run" ->
            [returned |-> TRUE, out |-> "Success",
             w |-> [w EXCEPT !.has_run[entity] = TRUE]]
      [] sys = "counter" ->
            LET c == w.counter[entity] + 1 IN
            [returned |-> TRUE,
             out |-> IF c < until THEN "Failure" ELSE "Success",
             w |-> [w EXCEPT !.counter[entity] = c]]
      [] sys = "counter_lt" ->
            [returned |-> TRUE, out |-> w.counter[entity] < until, w |-> w]

\* Mutant: an absent Status is Running.
IntoStatusAbsentRunning(out_, value) ==
    CASE out_ = "bool" -> IF value THEN "Success" ELSE "Failure"
      [] out_ = "Option" -> IF value = None THEN "Running" ELSE value[1]
      [] out_ = "Status" -> value

\* into_status: Into<Status> for bool, for Option<Status> and for Status.
IntoStatus(out_, value) ==
    CASE out_ = "bool" -> IF value THEN "Success" ELSE "Failure"
      [] out_ = "Option" -> IF value = None THEN "Failure" ELSE value[1]
      [] out_ = "Status" -> value

\* SystemBehaviour::run: the system piped into into_status.
SystemBehaviourRun(n, entity, in, w) ==
    LET r == HostSystem(Forest[n].system, Forest[n].until, entity, in, w) IN
    IF r.returned
    THEN [status |-> IntoStatus(Forest[n].out, r.out),
          w |-> [r.w EXCEPT !.raw[entity] = Append(@, [node |-> n, out |-> r.out])]]
    ELSE [status |-> Panic, w |-> r.w]

\* self.condition.run(entity, world), recorded in the entity's trace.
ConditionRun(c, entity, in, w) ==
    LET r == HostSystem(Forest[c].system, Forest[c].until, entity, in, w) IN
    [value |-> r.out,
     w |-> [r.w EXCEPT !.trace[entity] =
               Append(@, [node |-> c, at |-> 0,
                          ret |-> IF r.out THEN "true" ELSE "false"]),
                       !.unready = IF w.initCount[c] = 0 THEN @ \cup {c} ELSE @]]

\* ------------------------------------------------------------------ cursors

\* The cursor a composite holds for an entity; an absent entry reads as 0.
Cursor(ix, entity) == IF entity \in DOMAIN ix THEN ix[entity] ELSE 0

\* Mutant: an absent cursor reads as 0 and no entry is made for it.
SequenceIndexForgets(ix, entity) ==
    [value |-> Cursor(ix, entity), indices |-> ix]

SequenceIndex(ix, entity) ==
    IF entity \in DOMAIN ix
    THEN [value |-> ix[entity], indices |-> ix]
    ELSE [value |-> 0, indices |-> (entity :> 0) @@ ix]

\* Mutant: reset restarts the sequence for every entity.
SequenceResetAll(ix, entity) == [e \in DOMAIN ix \cup {entity} |-> 0]

\* Mutant: reset leaves the cursor where it is.
SequenceResetKeeps(ix, entity) == ix

\* Mutant: a failed child is stepped over instead of restarting the sequence.
SequenceResetAdvances(ix, entity) ==
    IF entity \in DOMAIN ix THEN [ix EXCEPT ![entity] = @ + 1] ELSE ix

SequenceReset(ix, entity) == (entity :> 0) @@ ix

\* Mutant: one cursor for all entities, as a composite with a single index.
SequenceIncreaseShared(ix, entity) == [e \in DOMAIN ix |-> ix[e] + 1]

SequenceIncrease(ix, entity) ==
    IF entity \in DOMAIN ix THEN [ix EXCEPT ![entity] = @ + 1] ELSE ix

SelectIndex(ix, entity) ==
    IF entity \in DOMAIN ix
    THEN [value |-> ix[entity], indices |-> ix]
    ELSE [value |-> 0, indices |-> (entity :> 0) @@ ix]

\* Mutant: reset leaves the cursor where it is.
SelectResetKeeps(ix, entity) == ix

SelectReset(ix, entity) ==
    IF entity \in DOMAIN ix THEN [ix EXCEPT ![entity] = 0] ELSE ix

\* Mutant: a failed branch skips the next one.
SelectIncreaseSkips(ix, entity) ==
    IF entity \in DOMAIN ix THEN [ix EXCEPT ![entity] = @ + 2] ELSE ix

\* Mutant: a failed branch advances the cursor of every entity.
SelectIncreaseShared(ix, entity) == [e \in DOMAIN ix |-> ix[e] + 1]

\* Mutant: a failed branch is tried again on the next call.
SelectIncreaseStays(ix, entity) == ix

SelectIncrease(ix, entity) ==
    IF entity \in DOMAIN ix THEN [ix EXCEPT ![entity] = @ + 1] ELSE ix

\* ------------------------------------------------------------------ run

RECURSIVE Run(_, _, _, _)

\* Mutant: the success of the last child completes the sequence in the
\* same call.
SequenceRunEager(n, entity, in, w) ==
    LET ix == SequenceIndex(w.indices[n], entity)
        w1 == [w EXCEPT !.indices[n] = ix.indices]
        funcs == Forest[n].funcs
    IN  IF ix.value < Len(funcs)
        THEN LET r == Run(funcs[ix.value + 1], entity, in, w1) IN
             CASE r.status = "Running" -> r
               [] r.status = "Failure" ->
                     [status |-> "Failure",
                      w |-> [r.w EXCEPT !.indices[n] = SequenceReset(@, entity)]]
               [] r.status = "Success" ->
                     IF ix.value + 1 = Len(funcs)
                     THEN [status |-> "Success",
                           w |-> [r.w EXCEPT !.indices[n] = SequenceReset(@, entity)]]
                     ELSE [status |-> "Running",
                           w |-> [r.w EXCEPT !.indices[n] = SequenceIncrease(@, entity)]]
               [] OTHER -> r
        ELSE [status |-> "Success",
              w |-> [w1 EXCEPT !.indices[n] = SequenceReset(@, entity)]]

SequenceRun(n, entity, in, w) ==
    LET ix == SequenceIndex(w.indices[n], entity)
        w1 == [w EXCEPT !.indices[n] = ix.indices]
        funcs == Forest[n].funcs
    IN  IF ix.value < Len(funcs)
        THEN LET r == Run(funcs[ix.value + 1], entity, in, w1) IN
             CASE r.status = "Running" -> r
               [] r.status = "Failure" ->
                     [status |-> "Failure",
                      w |-> [r.w EXCEPT !.indices[n] = SequenceReset(@, entity)]]
               [] r.status = "Success" ->
                     [status |-> "Running",
                      w |-> [r.w EXCEPT !.indices[n] = SequenceIncrease(@, entity)]]
               [] OTHER -> r
        ELSE [status |-> "Success",
              w |-> [w1 EXCEPT !.indices[n] = SequenceReset(@, entity)]]

\* Mutant: a failed branch falls through to the next branch in the same call.
SelectRunThrough(n, entity, in, w) ==
    LET ix == SelectIndex(w.indices[n], entity)
        w1 == [w EXCEPT !.indices[n] = ix.indices]
        funcs == Forest[n].funcs
    IN  IF ix.value < Len(funcs)
        THEN LET r == Run(funcs[ix.value + 1], entity, in, w1) IN
             CASE r.status = "Running" -> r
               [] r.status = "Failure" ->
                     LET w2 == [r.w EXCEPT !.indices[n] = SelectIncrease(@, entity)] IN
                     IF ix.value + 1 < Len(funcs)
                     THEN LET r2 == Run(funcs[ix.value + 2], entity, in, w2) IN
                          [status |-> r2.status, w |-> r2.w]
                     ELSE [status |-> "Running", w |-> w2]
               [] r.status = "Success" ->
                     [status |-> "Success",
                      w |-> [r.w EXCEPT !.indices[n] = SelectReset(@, entity)]]
               [] OTHER -> r
        ELSE [status |-> "Failure",
              w |-> [w1 EXCEPT !.indices[n] = SelectReset(@, entity)]]

SelectRun(n, entity, in, w) ==
    LET ix == SelectIndex(w.indices[n], entity)
        w1 == [w EXCEPT !.indices[n] = ix.indices]
        funcs == Forest[n].funcs
    IN  IF ix.value < Len(funcs)
        THEN LET r == Run(funcs[ix.value + 1], entity, in, w1) IN
             CASE r.status = "Running" -> r
               [] r.status = "Failure" ->
                     [status |-> "Running",
                      w |-> [r.w EXCEPT !.indices[n] = SelectIncrease(@, entity)]]
               [] r.status = "Success" ->
                     [status |-> "Success",
                      w |-> [r.w EXCEPT !.indices[n] = SelectReset(@, entity)]]
               [] OTHER -> r
        ELSE [status |-> "Failure",
              w |-> [w1 EXCEPT !.indices[n] = SelectReset(@, entity)]]

\* Mutant: the last allowed try is followed by one more.
CanRetryInclusive(tries_, max_tries) == tries_ <= max_tries

\* Mutant: retrying stops only when the tries are exactly the limit.
CanRetryUnlessEqual(tries_, max_tries) == tries_ # max_tries

\* Mutant: the comparison the wrong way round.

CanRetryInverted(tries_, max_tries) == tries_ > max_tries

\* `self.tries < self.max_tries`
CanRetry(tries_, max_tries) == tries_ < max_tries

\* Mutant: the tries are compared with max_tries before the failure is
\* counted.
RetryRunChecksFirst(n, entity, in, w) ==
    LET r == Run(Forest[n].funcs[1], entity, in, w) IN
    CASE r.status = "Failure" ->
            IF CanRetry(r.w.tries[n], Forest[n].max_tries)
            THEN [status |-> "Running", w |-> [r.w EXCEPT !.tries[n] = @ + 1]]
            ELSE [status |-> "Failure", w |-> [r.w EXCEPT !.tries[n] = 0]]
      [] r.status = "Success" ->
            [status |-> "Success", w |-> [r.w EXCEPT !.tries[n] = 0]]
      [] r.status = "Running" -> r
      [] OTHER -> r

\* Mutant: each failure counts as the first one of its call.
RetryRunCountsFromOne(n, entity, in, w) ==
    LET r == Run(Forest[n].funcs[1], entity, in, w) IN
    CASE r.status = "Failure" ->
            IF CanRetry(1, Forest[n].max_tries)
            THEN [status |-> "Running", w |-> [r.w EXCEPT !.tries[n] = 1]]
            ELSE [status |-> "Failure", w |-> [r.w EXCEPT !.tries[n] = 0]]
      [] r.status = "Success" ->
            [status |-> "Success", w |-> [r.w EXCEPT !.tries[n] = 0]]
      [] r.status = "Running" -> r
      [] OTHER -> r

\* Mutant: a child that is still running resets the tries.
RetryRunResetsOnRunning(n, entity, in, w) ==
    LET r == Run(Forest[n].funcs[1], entity, in, w) IN
    CASE r.status = "Failure" ->
            LET t == r.w.tries[n] + 1 IN
            IF CanRetry(t, Forest[n].max_tries)
            THEN [status |-> "Running", w |-> [r.w EXCEPT !.tries[n] = t]]
            ELSE [status |-> "Failure", w |-> [r.w EXCEPT !.tries[n] = 0]]
      [] r.status \in {"Success", "Running"} ->
            [status |-> r.status, w |-> [r.w EXCEPT !.tries[n] = 0]]
      [] OTHER -> r

\* Mutant: the tries are not reset when the child succeeds.
RetryRunKeepsTries(n, entity, in, w) ==
    LET r == Run(Forest[n].funcs[1], entity, in, w) IN
    CASE r.status = "Failure" ->
            LET t == r.w.tries[n] + 1 IN
            IF CanRetry(t, Forest[n].max_tries)
            THEN [status |-> "Running", w |-> [r.w EXCEPT !.tries[n] = t]]
            ELSE [status |-> "Failure", w |-> [r.w EXCEPT !.tries[n] = 0]]
      [] OTHER -> r

RetryRun(n, entity, in, w) ==

    LET r == Run(Forest[n].funcs[1], entity, in, w) IN
    CASE r.status = "Failure" ->
            LET t == r.w.tries[n] + 1 IN
            IF CanRetry(t, Forest[n].max_tries)
            THEN [status |-> "Running", w |-> [r.w EXCEPT !.tries[n] = t]]
            ELSE [status |-> "Failure", w |-> [r.w EXCEPT !.tries[n] = 0]]
      [] r.status = "Success" ->
            [status |-> "Success", w |-> [r.w EXCEPT !.tries[n] = 0]]
      [] r.status = "Running" -> r
      [] OTHER -> r

\* Mutant: the Status of the child is passed on as it is.
InvertRunKeeps(n, entity, in, w) == Run(Forest[n].funcs[1], entity, in, w)

InvertRun(n, entity, in, w) ==

    LET r == Run(Forest[n].funcs[1], entity, in, w) IN
    CASE r.status = "Failure" -> [status |-> "Success", w |-> r.w]
      [] r.status = "Success" -> [status |-> "Failure", w |-> r.w]
      [] r.status = "Running" -> [status |-> "Running", w |-> r.w]
      [] OTHER -> r

\* Mutant: the short circuit is Success whatever short_circuit is.
RunIfRunShortSuccess(n, entity, in, w) ==
    LET c == ConditionRun(Forest[n].condition, entity, in, w) IN
    IF c.value
    THEN Run(Forest[n].funcs[1], entity, in, c.w)
    ELSE [status |-> "Success", w |-> c.w]

RunIfRun(n, entity, in, w) ==
    LET c == ConditionRun(Forest[n].condition, entity, in, w) IN
    IF c.value
    THEN Run(Forest[n].funcs[1], entity, in, c.w)
    ELSE [status |-> Forest[n].short_circuit, w |-> c.w]

\* Mutant: the child is ticked before the condition is looked at.
RetryWhileRunChildFirst(n, entity, in, w) ==
    LET r == Run(Forest[n].funcs[1], entity, in, w) IN
    IF r.status = Panic
    THEN r
    ELSE LET c == ConditionRun(Forest[n].condition, entity, in, r.w) IN
         IF c.value
         THEN [status |-> IF r.status = "Success" THEN "Success" ELSE "Running",
               w |-> c.w]
         ELSE [status |-> "Failure", w |-> c.w]

\* Mutant: a child that failed is run again in the same call.
RetryWhileRunTwice(n, entity, in, w) ==
    LET c == ConditionRun(Forest[n].condition, entity, in, w) IN
    IF c.value
    THEN LET r == Run(Forest[n].funcs[1], entity, in, c.w) IN
         CASE r.status = "Failure" -> Run(Forest[n].funcs[1], entity, in, r.w)
           [] r.status = "Running" -> [status |-> "Running", w |-> r.w]
           [] r.status = "Success" -> [status |-> "Success", w |-> r.w]
           [] OTHER -> r
    ELSE [status |-> "Failure", w |-> c.w]

\* Mutant: the failure of the child is passed on.
RetryWhileRunPassesFailure(n, entity, in, w) ==
    LET c == ConditionRun(Forest[n].condition, entity, in, w) IN
    IF c.value
    THEN Run(Forest[n].funcs[1], entity, in, c.w)
    ELSE [status |-> "Failure", w |-> c.w]

RetryWhileRun(n, entity, in, w) ==

    LET c == ConditionRun(Forest[n].condition, entity, in, w) IN
    IF c.value
    THEN LET r == Run(Forest[n].funcs[1], entity, in, c.w) IN
         CASE r.status \in {"Failure", "Running"} -> [status |-> "Running", w |-> r.w]
           [] r.status = "Success" -> [status |-> "Success", w |-> r.w]
           [] OTHER -> r
    ELSE [status |-> "Failure", w |-> c.w]

\* The state a node holds at the entry of a call: a composite's cursor for
\* the entity, a Retry's tries.
Progress(n, entity, w) ==
    CASE IsComposite(n) -> Cursor(w.indices[n], entity)
      [] IsRetry(n) -> w.tries[n]
      [] OTHER -> 0

\* Records the call of run on n in the entity's trace, before the calls it
\* made, and the result of the child a composite ran.
Observe(n, entity, w, r) ==
    LET before == Len(w.trace[entity])
        tr == r.w.trace[entity]
        at == Progress(n, entity, w)
        entry == [node |-> n, at |-> at, ret |-> r.status]
        base == IF at = 0 THEN <<>> ELSE w.outcomes[n][entity]
        seen == IF Len(tr) > before /\ tr[before + 1].ret \in {"Success", "Failure"}
                THEN Append(base, tr[before + 1].ret)
                ELSE base
        w1 == [r.w EXCEPT !.trace[entity] =
                  SubSeq(tr, 1, before) \o <<entry>> \o SubSeq(tr, before + 1, Len(tr)),
                          !.unready = IF w.initCount[n] = 0 THEN @ \cup {n} ELSE @]
    IN  [status |-> r.status,
         w |-> IF IsComposite(n)
               THEN [w1 EXCEPT !.outcomes[n][entity] = seen]
               ELSE w1]

\* Behaviour::run, dispatched on the node's type.
Run(n, entity, in, w) ==
    LET kind == Forest[n].kind IN
    Observe(n, entity, w,
        CASE kind = "Leaf" -> SystemBehaviourRun(n, entity, in, w)
          [] kind = "Sequence" -> SequenceRun(n, entity, in, w)
          [] kind = "Select" -> SelectRun(n, entity, in, w)
          [] kind = "Retry" -> RetryRun(n, entity, in, w)
          [] kind = "Invert" -> InvertRun(n, entity, in, w)
          [] kind = "RunIf" -> RunIfRun(n, entity, in, w)
          [] kind = "RetryWhile" -> RetryWhileRun(n, entity, in, w)
          [] kind = "Todo" -> [status |-> Panic, w |-> w])

\* ------------------------------------------------------------------ initialize

RECURSIVE Initialize(_, _)
RECURSIVE InitializeAll(_, _, _)

\* `for func in &mut self.funcs { func.initialize(world) }`
InitializeAll(funcs, i, w) ==
    IF i > Len(funcs) \/ w.panicked
    THEN w
    ELSE InitializeAll(funcs, i + 1, Initialize(funcs[i], w))

\* Behaviour::initialize, dispatched on the node's type, and
\* System::initialize of a condition.
Initialize(n, w) ==
    LET kind == Forest[n].kind
        w0 == [w EXCEPT !.initCount[n] = @ + 1, !.inits = Append(@, n)]
    IN  CASE kind \in {"Leaf", "Condition"} -> w0
          [] kind = "Invert" -> Initialize(Forest[n].funcs[1], w0)
          [] kind = "RunIf" ->
                LET w1 == Initialize(Forest[n].funcs[1], w0) IN
                IF w1.panicked THEN w1 ELSE Initialize(Forest[n].condition, w1)
          [] kind = "RetryWhile" ->
                LET w1 == Initialize(Forest[n].condition, w0) IN
                IF w1.panicked THEN w1 ELSE Initialize(Forest[n].funcs[1], w1)
          [] kind \in {"Sequence", "Select"} -> InitializeAll(Forest[n].funcs, 1, w0)
          [] kind = "Retry" ->
                LET w1 == Initialize(Forest[n].funcs[1], w0) IN
                IF w1.panicked THEN w1 ELSE [w1 EXCEPT !.tries[n] = 0]
          [] kind = "Todo" -> [w0 EXCEPT !.panicked = TRUE]

\* ------------------------------------------------------------------ registry

\* Mutant: the tree is initialized on every tick.
NeedsInitializeEveryTick(initialized_, id) == TRUE

\* Mutant: no tree is ever initialized.
NeedsInitializeNever(initialized_, id) == FALSE

\* `!trees.initialized.contains(&id)`
NeedsInitialize(initialized_, id) == id \notin initialized_

\* Mutant: the behaviour is not put back into its slot.
BehaviourScopeTakes(id, entity, in, w) ==
    IF id >= Len(w.trees)
    THEN w
    ELSE IF w.trees[id + 1] = None
         THEN [w EXCEPT !.panicked = TRUE]
         ELSE LET behaviour == w.trees[id + 1][1]
                  taken == [w EXCEPT !.trees[id + 1] = None]
                  ready == IF NeedsInitialize(taken.initialized, id)
                           THEN LET i == Initialize(behaviour, taken) IN
                                IF i.panicked
                                THEN i
                                ELSE [i EXCEPT !.initialized = @ \cup {id}]
                           ELSE taken
              IN  IF ready.panicked
                  THEN ready
                  ELSE LET r == Run(behaviour, entity, in,
                                    [ready EXCEPT !.ticks[entity] = @ + 1])
                       IN  IF r.status = Panic
                           THEN [r.w EXCEPT !.panicked = TRUE]
                           ELSE r.w

\* Mutant: the slot is indexed, which panics where there is none.
BehaviourScopeIndexed(id, entity, in, w) ==
    IF id >= Len(w.trees)
    THEN [w EXCEPT !.panicked = TRUE]
    ELSE IF w.trees[id + 1] = None
         THEN [w EXCEPT !.panicked = TRUE]
         ELSE LET behaviour == w.trees[id + 1][1]
                  taken == [w EXCEPT !.trees[id + 1] = None]
                  ready == IF NeedsInitialize(taken.initialized, id)
                           THEN LET i == Initialize(behaviour, taken) IN
                                IF i.panicked
                                THEN i
                                ELSE [i EXCEPT !.initialized = @ \cup {id}]
                           ELSE taken
              IN  IF ready.panicked
                  THEN ready
                  ELSE LET r == Run(behaviour, entity, in,
                                    [ready EXCEPT !.ticks[entity] = @ + 1])
                       IN  IF r.status = Panic
                           THEN [r.w EXCEPT !.panicked = TRUE]
                           ELSE [r.w EXCEPT !.trees[id + 1] = Some(behaviour)]

\* BehaviourTrees::behaviour_scope with the closure of run_ticks as its scope.
\* A BehaviourId is the 0-based index of a slot.  A panic inside leaves the
\* slot empty: the behaviour was moved out and is dropped by the unwinding.
BehaviourScope(id, entity, in, w) ==
    IF id >= Len(w.trees)
    THEN w
    ELSE IF w.trees[id + 1] = None
         THEN [w EXCEPT !.panicked = TRUE]
         ELSE LET behaviour == w.trees[id + 1][1]
                  taken == [w EXCEPT !.trees[id + 1] = None]
                  ready == IF NeedsInitialize(taken.initialized, id)
                           THEN LET i == Initialize(behaviour, taken) IN
                                IF i.panicked
                                THEN i
                                ELSE [i EXCEPT !.initialized = @ \cup {id}]
                           ELSE taken
              IN  IF ready.panicked
                  THEN ready
                  ELSE LET r == Run(behaviour, entity, in,
                                    [ready EXCEPT !.ticks[entity] = @ + 1])
                       IN  IF r.status = Panic
                           THEN [r.w EXCEPT !.panicked = TRUE]
                           ELSE [r.w EXCEPT !.trees[id + 1] = Some(behaviour)]

RECURSIVE BehaviourScopeWith(_, _, _)

\* BehaviourTrees::behaviour_scope with a scope that counts that it ran and
\* then calls behaviour_scope, on the registry it is handed, for the first
\* id of `scope` with a scope made of the rest; the empty scope returns.
BehaviourScopeWith(id, scope, w) ==
    IF id >= Len(w.trees)
    THEN w
    ELSE IF w.trees[id + 1] = None
         THEN [w EXCEPT !.panicked = TRUE]
         ELSE LET behaviour == w.trees[id + 1][1]
                  taken == [w EXCEPT !.trees[id + 1] = None, !.ran = @ + 1]
                  r == IF scope = <<>>
                       THEN taken
                       ELSE BehaviourScopeWith(Head(scope), Tail(scope), taken)
              IN  IF r.panicked
                  THEN r
                  ELSE [r EXCEPT !.trees[id + 1] = Some(behaviour)]

\* ------------------------------------------------------------------ driver

\* Mutant: the query has no Without<Skip> filter.
ActiveWithSkip == {e \in Entities : bid[e] # None}

\* The entities the query of run_ticks yields: a BehaviourId and no Skip.
Active == {e \in Entities : bid[e] # None /\ ~skip[e]}

\* The host systems of the entity's tree.
Systems(entity) ==
    IF /\ bid[entity] # None
       /\ bid[entity][1] < Len(trees)
       /\ trees[bid[entity][1] + 1] # None
    THEN {Forest[n].system : n \in Nodes(trees[bid[entity][1] + 1][1])}
    ELSE {}

\* The entity's tree has a system whose output is an input of the pass.
TakesInput(entity) ==
    Systems(entity) \cap {"user", "user_bool", "user_option", "user_cond"} # {}

\* The active entities whose tree has one of the systems.
Takers(systems) == {e \in Active : Systems(e) \cap systems # {}}

\* What the world may hold for the host systems to return in a pass: for
\* each entity a Status, a bool and an Option<Status>, each one fixed where
\* no system of the entity's tree reads it.
Inputs ==
    {[e \in Active |->
        [status |-> IF e \in DOMAIN st THEN st[e] ELSE "Success",
         cond |-> IF e \in DOMAIN cd THEN cd[e] ELSE TRUE,
         option |-> IF e \in DOMAIN op THEN op[e] ELSE None]] :
     st \in [Takers({"user"}) -> Status],
     cd \in [Takers({"user_bool", "user_cond"}) -> BOOLEAN],
     op \in [Takers({"user_option"}) -> {None} \cup {Some(x) : x \in Status}]}

\* The bound on the run calls explored for an entity.
TickLimit(entity) == IF TakesInput(entity) THEN MaxInputTicks ELSE MaxTicks

\* The orders in which the query may yield them.
Orderings(S) ==
    {q \in [1..Cardinality(S) -> S] : \A i, j \in DOMAIN q : i # j => q[i] # q[j]}

RECURSIVE SortFrom(_, _)

\* query.sort_by(|(_, id1), (_, id2)| id1.cmp(id2)): a stable sort, here by
\* collecting the pairs of each id in turn, in the order they arrived.
SortFrom(id, query) ==
    IF id > MaxTrees
    THEN <<>>
    ELSE LET HasId(pair) == pair[2] = id IN
         SelectSeq(query, HasId) \o SortFrom(id + 1, query)

\* Mutant: the pairs are left in the order the query yielded them.
SortByArrival(query) == query

SortBy(query) == SortFrom(0, query)

\* What trees.get_mut(id.0) finds: the slot of id, None where there is none.
Slot(trees_, id) == IF id < Len(trees_) THEN trees_[id + 1] ELSE None

RECURSIVE ForEach(_, _, _, _)

\* `for (entity, id) in query { trees.behaviour_scope(id, ...) }`
ForEach(query, i, in, w) ==
    IF i > Len(query) \/ w.panicked
    THEN w
    ELSE ForEach(query, i + 1, in,
                 BehaviourScope(query[i][2], query[i][1], in,
                                [w EXCEPT !.visited =
                                    Append(@, [pair |-> query[i],
                                               slot |-> Slot(w.trees, query[i][2])])]))

\* The variables a pass may change, as the record the calls thread through.
\* The trace starts empty: it holds the calls of this pass only, and so do
\* the other records of a pass.
World ==
    [trees |-> trees, initialized |-> initialized, indices |-> indices,
     tries |-> tries, counter |-> counter, has_run |-> has_run,
     panicked |-> panicked, initCount |-> initCount, ticks |-> ticks,
     inits |-> <<>>, unready |-> unready, visited |-> <<>>,
     raw |-> [e \in Entities |-> <<>>],
     trace |-> [e \in Entities |-> <<>>], outcomes |-> outcomes]

\* ------------------------------------------------------------------ actions

\* BehaviourTrees::default() and a world whose entities carry Counter(0)
\* and HasRun(false), with the behaviours of one program constructed.
InitWith(programs) ==
    /\ trees = <<>>
    /\ initialized = {}
    /\ pool \in programs
    /\ bid = [e \in Entities |-> None]
    /\ skip = [e \in Entities |-> FALSE]
    /\ indices = [n \in CompositeIds |-> <<>>]
    /\ tries = [n \in RetryIds |-> 0]
    /\ counter = [e \in Entities |-> 0]
    /\ has_run = [e \in Entities |-> FALSE]
    /\ panicked = FALSE
    /\ initCount = [n \in NodeIds |-> 0]
    /\ inits = <<>>
    /\ unready = {}
    /\ handles = <<>>
    /\ arrived = <<>>
    /\ visited = <<>>
    /\ scoped = None
    /\ raw = [e \in Entities |-> <<>>]
    /\ ticks = [e \in Entities |-> 0]
    /\ trace = [e \in Entities |-> <<>>]
    /\ outcomes = [n \in CompositeIds |-> [e \in Entities |-> <<>>]]
    /\ index = [n \in IndexIds |-> 0]
    /\ called = None

\* Mutant: the id is the length of the storage after the push.
CreatedIdLen(trees_) == Len(trees_)

\* `BehaviourId(self.trees.len() - 1)`, with the storage after the push.
CreatedId(trees_) == Len(trees_) - 1

\* BehaviourTrees::create
Create(behaviour) ==
    /\ ~panicked
    /\ behaviour \in pool
    /\ Len(trees) < MaxTrees
    /\ trees' = Append(trees, Some(behaviour))
    /\ handles' = Append(handles, [id |-> CreatedId(trees'), behaviour |-> behaviour])
    /\ pool' = pool \ {behaviour}
    /\ UNCHANGED << initialized, bid, skip, indices, tries, counter, has_run,
                    panicked, initCount, inits, unready, arrived, visited, scoped,
                    raw, ticks, trace, outcomes,
                    index, called >>

\* commands.spawn(id) with the id create returned, or BehaviourId::default()
Spawn(entity, id) ==
    /\ ~panicked
    /\ bid[entity] = None
    /\ id < Len(trees) \/ id = 0
    /\ bid' = [bid EXCEPT ![entity] = Some(id)]
    /\ UNCHANGED << trees, initialized, pool, skip, indices, tries, counter,
                    has_run, panicked, initCount, inits, unready, handles, arrived,
                    visited, scoped, raw, ticks, trace, outcomes,
                    index, called >>

\* The host inserts the Skip marker.
InsertSkip(entity) ==
    /\ ~panicked
    /\ bid[entity] # None
    /\ ~skip[entity]
    /\ skip' = [skip EXCEPT ![entity] = TRUE]
    /\ UNCHANGED << trees, initialized, pool, bid, indices, tries, counter,
                    has_run, panicked, initCount, inits, unready, handles, arrived,
                    visited, scoped, raw, ticks, trace, outcomes,
                    index, called >>

\* The host removes the Skip marker.
RemoveSkip(entity) ==
    /\ ~panicked
    /\ skip[entity]
    /\ skip' = [skip EXCEPT ![entity] = FALSE]
    /\ UNCHANGED << trees, initialized, pool, bid, indices, tries, counter,
                    has_run, panicked, initCount, inits, unready, handles, arrived,
                    visited, scoped, raw, ticks, trace, outcomes,
                    index, called >>

\* A BehaviourId that no create of this registry returned is inserted: the
\* component is Default, Clone, Copy and Reflect, so any usize can arrive.
Insert(entity, id) ==
    /\ ~panicked
    /\ bid[entity] = None
    /\ bid' = [bid EXCEPT ![entity] = Some(id)]
    /\ UNCHANGED << trees, initialized, pool, skip, indices, tries, counter,
                    has_run, panicked, initCount, inits, unready, handles, arrived,
                    visited, scoped, raw, ticks, trace, outcomes,
                    index, called >>

\* behaviour_scope(id, ..) whose scope calls behaviour_scope(inner, ..) on
\* the registry it is handed; each scope counts that it ran.
NestedScope(id, inner) ==
    /\ ~panicked
    /\ scoped = None
    /\ \E w \in {BehaviourScopeWith(id, <<inner>>,
                     [trees |-> trees, panicked |-> FALSE, ran |-> 0])} :
         /\ trees' = w.trees
         /\ panicked' = w.panicked
         /\ scoped' = Some([id |-> id, inner |-> inner, ran |-> w.ran,
                            trees |-> trees, after |-> w.trees,
                            panicked |-> w.panicked])
    /\ UNCHANGED << initialized, pool, bid, skip, indices, tries, counter,
                    has_run, initCount, inits, unready, handles, arrived,
                    visited, raw, ticks, trace, outcomes,
                    index, called >>

\* run_ticks: one pass of the driver over the active entities.
RunTicks ==
    /\ ~panicked
    /\ Active # {}
    /\ \A e \in Active : ticks[e] < TickLimit(e)
    /\ \E order \in Orderings(Active), in \in Inputs :
         LET query == [i \in DOMAIN order |-> <<order[i], bid[order[i]][1]>>] IN
         \E w0 \in {World} : \E w \in {ForEach(SortBy(query), 1, in, w0)} :
            /\ trees' = w.trees
            /\ initialized' = w.initialized
            /\ indices' = w.indices
            /\ tries' = w.tries
            /\ counter' = w.counter
            /\ has_run' = w.has_run
            /\ panicked' = w.panicked
            /\ initCount' = w.initCount
            /\ inits' = w.inits
            /\ unready' = w.unready
            /\ arrived' = query
            /\ visited' = w.visited
            /\ raw' = w.raw
            /\ ticks' = w.ticks
            /\ trace' = w.trace
            /\ outcomes' = w.outcomes
    /\ UNCHANGED << pool, bid, skip, handles, scoped, index, called >>

Next ==
    \/ \E behaviour \in pool : Create(behaviour)
    \/ \E entity \in Entities, id \in 0..(MaxTrees - 1) : Spawn(entity, id)
    \/ \E entity \in Entities : InsertSkip(entity)
    \/ \E entity \in Entities : RemoveSkip(entity)
    \/ RunTicks

Init == InitWith(Programs)

InitTests == InitWith(TestPrograms)

Spec == Init /\ [][Next]_vars

SpecTests == InitTests /\ [][Next]_vars

InitDecorators == InitWith(DecoratorPrograms)

SpecDecorators == InitDecorators /\ [][Next]_vars

\* The registry under every caller: ids that arrive from elsewhere and calls
\* of behaviour_scope from inside a scope.
NextRegistry ==
    \/ Next
    \/ \E entity \in Entities, id \in 0..MaxTrees : Insert(entity, id)
    \/ \E id \in 0..MaxTrees, inner \in 0..MaxTrees : NestedScope(id, inner)

InitRegistry == InitWith(RegistryPrograms)

SpecRegistry == InitRegistry /\ [][NextRegistry]_vars

\* ------------------------------------------------------------------ one index

\* System::run of a child of the crate's composites: the host system is the
\* behaviour, and out is what it returns for the entity in this call.
SystemRun(n, entity, out_) ==
    HostSystem(Forest[n].system, Forest[n].until, entity,
               (entity :> [status |-> out_]), <<>>).out

\* Mutant: past the last child the chain starts over, as Select does.
ChainRunResets(n, entity, out_, at) ==
    IF at < Len(Forest[n].funcs)
    THEN LET system == Forest[n].funcs[at + 1]
             r == SystemRun(system, entity, out_)
         IN  CASE r = "Running" -> [status |-> "Running", index |-> at, ran |-> <<system>>]
               [] r = "Failure" -> [status |-> "Failure", index |-> 0, ran |-> <<system>>]
               [] r = "Success" -> [status |-> "Running", index |-> at + 1, ran |-> <<system>>]
    ELSE [status |-> "Success", index |-> 0, ran |-> <<>>]

\* Chain::run, from self.index = at.
ChainRun(n, entity, out_, at) ==
    IF at < Len(Forest[n].funcs)
    THEN LET system == Forest[n].funcs[at + 1]
             r == SystemRun(system, entity, out_)
         IN  CASE r = "Running" -> [status |-> "Running", index |-> at, ran |-> <<system>>]
               [] r = "Failure" -> [status |-> "Failure", index |-> 0, ran |-> <<system>>]
               [] r = "Success" -> [status |-> "Running", index |-> at + 1, ran |-> <<system>>]
    ELSE [status |-> "Success", index |-> at, ran |-> <<>>]

\* Select::run of the same crate, from self.index = at.
CrateSelectRun(n, entity, out_, at) ==
    IF at < Len(Forest[n].funcs)
    THEN LET system == Forest[n].funcs[at + 1]
             r == SystemRun(system, entity, out_)
         IN  CASE r = "Running" -> [status |-> "Running", index |-> at, ran |-> <<system>>]
               [] r = "Failure" -> [status |-> "Running", index |-> at + 1, ran |-> <<system>>]
               [] r = "Success" -> [status |-> "Success", index |-> 0, ran |-> <<system>>]
    ELSE [status |-> "Failure", index |-> 0, ran |-> <<>>]

\* The host calls chained.run(entity, &mut world).
RunChained(entity, out_) ==
    /\ \E r \in {ChainRun(Chained, entity, out_, index[Chained])} :
         /\ index' = [index EXCEPT ![Chained] = r.index]
         /\ called' = Some([node |-> Chained, entity |-> entity, at |-> index[Chained],
                            ran |-> r.ran, ret |-> r.status])
    /\ UNCHANGED << trees, initialized, pool, bid, skip, indices, tries, counter,
                    has_run, panicked, initCount, inits, unready, handles, arrived,
                    visited, scoped, raw, ticks, trace, outcomes >>

\* The host calls selected.run(entity, &mut world).
RunSelected(entity, out_) ==
    /\ \E r \in {CrateSelectRun(Selected, entity, out_, index[Selected])} :
         /\ index' = [index EXCEPT ![Selected] = r.index]
         /\ called' = Some([node |-> Selected, entity |-> entity, at |-> index[Selected],
                            ran |-> r.ran, ret |-> r.status])
    /\ UNCHANGED << trees, initialized, pool, bid, skip, indices, tries, counter,
                    has_run, panicked, initCount, inits, unready, handles, arrived,
                    visited, scoped, raw, ticks, trace, outcomes >>

\* A host that holds a chain and a select of host systems, constructed with
\* index 0 and initialized, and runs them for its entities as it sees fit.
NextChain ==
    \/ \E entity \in Entities, out_ \in Status : RunChained(entity, out_)
    \/ \E entity \in Entities, out_ \in Status : RunSelected(entity, out_)

InitChain == InitWith({{}})

SpecChain == InitChain /\ [][NextChain]_vars

\* ------------------------------------------------------------------ reading the trace

Funcs(n) == Forest[n].funcs

\* The calls of an entity's last tick on nodes of one type.
Calls(e, kind) == {i \in DOMAIN trace[e] : Forest[trace[e][i].node].kind = kind}

\* The calls of an entity's last tick on the direct children of n.
ChildCalls(e, n) ==
    {j \in DOMAIN trace[e] : \E k \in DOMAIN Funcs(n) : trace[e][j].node = Funcs(n)[k]}

\* The root behaviour the entity's BehaviourId resolves to (0: none).
RootOf(e) ==
    IF bid[e] # None /\ bid[e][1] < Len(trees) /\ trees[bid[e][1] + 1] # None
    THEN trees[bid[e][1] + 1][1]
    ELSE 0

\* The entities that have been ticked on the tree rooted at r.
TickedOn(r) == {e \in Entities : ticks[e] > 0 /\ RootOf(e) = r}

\* The Status the entity's last tick returned.
Last(e) == trace[e][1].ret

\* What a Sequence / a Select is to return for the Status of the child it ran.
SequenceResult(s) == IF s = "Success" THEN "Running" ELSE s

SelectResult(s) == IF s = "Failure" THEN "Running" ELSE s

\* ------------------------------------------------------------------ C1

\* C1: a pass that does not tick entity b leaves b's cursor in every
\* Sequence and Select as it was, however the other entities were ticked; and
\* a tick of b on a composite root reads b's own cursor, runs the child at
\* that cursor and returns what that child's Status for b determines.
C1_Isolation ==
    [][\A n \in DOMAIN indices, b \in Entities :
         /\ ticks'[b] = ticks[b] =>
               /\ (b \in DOMAIN indices'[n]) = (b \in DOMAIN indices[n])
               /\ Cursor(indices'[n], b) = Cursor(indices[n], b)
         /\ (ticks'[b] # ticks[b] /\ trace'[b][1].node = n) =>
               LET c == Cursor(indices[n], b)
                   call == trace'[b][1]
               IN  /\ call.at = c
                   /\ IF c < Len(Funcs(n))
                      THEN /\ trace'[b][2].node = Funcs(n)[c + 1]
                           /\ call.ret = IF Forest[n].kind = "Sequence"
                                         THEN SequenceResult(trace'[b][2].ret)
                                         ELSE SelectResult(trace'[b][2].ret)
                      ELSE Len(trace'[b]) = 1
      ]_vars

\* Two entities share the Sequence; the last pass ticked only a, whose cursor
\* is at 2 while b's is still at 1.
C1_Witness ==
    \E a, b \in Entities :
       /\ a # b
       /\ bid[a] = bid[b]
       /\ trace[a] # <<>> /\ trace[a][1].node = InputSequence
       /\ trace[b] = <<>>
       /\ ticks[b] > 0
       /\ Cursor(indices[InputSequence], a) = 2
       /\ Cursor(indices[InputSequence], b) = 1

\* ------------------------------------------------------------------ C3

\* C3: a call of Sequence.run with the cursor on a child runs exactly that
\* child; Running gives Running with the cursor unchanged, Failure gives
\* Failure with the cursor at 0, Success gives Running with the cursor one
\* further.  With the cursor past the last child it runs no child, returns
\* Success and leaves the cursor at 0.
C3_SequenceRun ==
    \A e \in Entities : \A i \in Calls(e, "Sequence") :
       LET call == trace[e][i]
           n == call.node
           c == call.at
           now == Cursor(indices[n], e)
       IN  IF c < Len(Funcs(n))
           THEN /\ ChildCalls(e, n) = {i + 1}
                /\ trace[e][i + 1].node = Funcs(n)[c + 1]
                /\ LET s == trace[e][i + 1].ret IN
                   /\ s = "Running" => call.ret = "Running" /\ now = c
                   /\ s = "Failure" => call.ret = "Failure" /\ now = 0
                   /\ s = "Success" => call.ret = "Running" /\ now = c + 1
           ELSE /\ ChildCalls(e, n) = {}
                /\ call.ret = "Success"
                /\ now = 0

\* One pass in which a Sequence past its last child returned Success for
\* one entity and, at its second child, Failure for the other.
C3_Witness ==
    \E a, b \in Entities :
       /\ trace[a] = <<[node |-> InputSequence, at |-> 2, ret |-> "Success"]>>
       /\ Len(trace[b]) = 2
       /\ trace[b][1] = [node |-> InputSequence, at |-> 1, ret |-> "Failure"]
       /\ Cursor(indices[InputSequence], b) = 0

\* ------------------------------------------------------------------ C4

\* C4: a call of Select.run with the cursor on a child runs exactly that
\* child; Running gives Running with the cursor unchanged, Failure gives
\* Running with the cursor one further, Success gives Success with the cursor
\* at 0.  With the cursor past the last child it runs no child, returns
\* Failure and leaves the cursor at 0.
C4_SelectRun ==
    \A e \in Entities : \A i \in Calls(e, "Select") :
       LET call == trace[e][i]
           n == call.node
           c == call.at
           now == Cursor(indices[n], e)
       IN  IF c < Len(Funcs(n))
           THEN /\ ChildCalls(e, n) = {i + 1}
                /\ trace[e][i + 1].node = Funcs(n)[c + 1]
                /\ LET s == trace[e][i + 1].ret IN
                   /\ s = "Running" => call.ret = "Running" /\ now = c
                   /\ s = "Failure" => call.ret = "Running" /\ now = c + 1
                   /\ s = "Success" => call.ret = "Success" /\ now = 0
           ELSE /\ ChildCalls(e, n) = {}
                /\ call.ret = "Failure"
                /\ now = 0

\* One pass in which a Select past its last child returned Failure for one
\* entity and, at its second child, Success for the other.
C4_Witness ==
    \E a, b \in Entities :
       /\ trace[a] = <<[node |-> InputSelect, at |-> 2, ret |-> "Failure"]>>
       /\ Len(trace[b]) = 2
       /\ trace[b][1] = [node |-> InputSelect, at |-> 1, ret |-> "Success"]
       /\ Cursor(indices[InputSelect], b) = 0

\* ------------------------------------------------------------------ C2

\* C2: whatever the number of passes and of entities sharing a handle, the
\* driver has called initialize on the root of a tree, and so on every node
\* of it, once if the handle is in the initialized set and never otherwise;
\* and a handle some entity was ticked on is in the initialized set.
C2_InitializeOnce ==
    /\ \A n \in DOMAIN initCount : initCount[n] <= 1
    /\ \A id \in 0..(Len(trees) - 1) :
          trees[id + 1] # None =>
             \A n \in Nodes(trees[id + 1][1]) :
                initCount[n] = IF id \in initialized THEN 1 ELSE 0
    /\ \A e \in Entities : ticks[e] > 0 => bid[e][1] \in initialized

\* Both entities share the Sequence and each was ticked in three passes.
C2_Witness ==
    /\ \A e \in Entities : RootOf(e) = InputSequence /\ ticks[e] = 3
    /\ \A n \in Nodes(InputSequence) : initCount[n] = 1

\* ------------------------------------------------------------------ C5

\* C5: the Sequence of [fail, panic_if_run] returns Failure on every tick and
\* its second child is never run; and whenever a Sequence runs for an entity
\* with its cursor at i, the children before i each returned Success for that
\* entity since the cursor was last 0, and the only child run is the one at i.
C5_SequenceShortCircuit ==
    /\ \A e \in Entities :
          (trace[e] # <<>> /\ trace[e][1].node = TestChain) =>
             /\ Last(e) = "Failure"
             /\ \A j \in DOMAIN trace[e] : trace[e][j].node # Funcs(TestChain)[2]
    /\ \A e \in Entities : \A i \in Calls(e, "Sequence") :
          LET n == trace[e][i].node
              c == trace[e][i].at
          IN  /\ Len(outcomes[n][e]) >= c
              /\ \A j \in 1..c : outcomes[n][e][j] = "Success"
              /\ \A j \in ChildCalls(e, n) : trace[e][j].node = Funcs(n)[c + 1]

\* The second tick of an entity on the Sequence of [fail, panic_if_run].
C5_Witness ==
    \E e \in Entities :
       /\ ticks[e] = 2
       /\ trace[e] = << [node |-> TestChain, at |-> 0, ret |-> "Failure"],
                        [node |-> Funcs(TestChain)[1], at |-> 0, ret |-> "Failure"] >>

\* ------------------------------------------------------------------ C6

\* C6: the Select of [fail, fail, has_run, panic_if_run] returns Running on
\* an entity's ticks 1 and 2 (cursor 1, then 2) and Success on tick 3 (cursor
\* 0), and so on in every later round, and its fourth child is never run;
\* and whenever a Select runs for an entity with its cursor at i, the
\* children before i each returned Failure for that entity since the cursor
\* was last 0, and the only child run is the one at i.
C6_SelectTest ==
    /\ \A e \in DOMAIN indices[TestSelect] :
          /\ indices[TestSelect][e] = ticks[e] % 3
          /\ has_run[e] = (ticks[e] >= 3)
          /\ trace[e] # <<>> =>
                /\ Last(e) = IF ticks[e] % 3 = 0 THEN "Success" ELSE "Running"
                /\ \A j \in DOMAIN trace[e] : trace[e][j].node # Funcs(TestSelect)[4]
    /\ \A e \in Entities : \A i \in Calls(e, "Select") :
          LET n == trace[e][i].node
              c == trace[e][i].at
          IN  /\ Len(outcomes[n][e]) >= c
              /\ \A j \in 1..c : outcomes[n][e][j] = "Failure"
              /\ \A j \in ChildCalls(e, n) : trace[e][j].node = Funcs(n)[c + 1]

\* The sixth tick of an entity on that Select: Success for the second time.
C6_Witness ==
    \E e \in Entities :
       /\ ticks[e] = 6
       /\ trace[e] = << [node |-> TestSelect, at |-> 2, ret |-> "Success"],
                        [node |-> Funcs(TestSelect)[3], at |-> 0, ret |-> "Success"] >>

\* ------------------------------------------------------------------ C7

\* C7: a Sequence of n children that all succeed returns Running on an
\* entity's ticks 1..n, running the one child at the cursor, and Success on
\* tick n+1 without running a child, with the cursor back at 0; the pattern
\* repeats every n+1 ticks.
C7_SequenceLatency ==
    \A r \in {Succeed2, Succeed3} : \A e \in DOMAIN indices[r] :
       LET n == Len(Funcs(r))
           k == ticks[e] % (n + 1)
       IN  /\ indices[r][e] = k
           /\ trace[e] # <<>> =>
                 trace[e] =
                    IF k = 0
                    THEN << [node |-> r, at |-> n, ret |-> "Success"] >>
                    ELSE << [node |-> r, at |-> k - 1, ret |-> "Running"],
                            [node |-> Funcs(r)[k], at |-> 0, ret |-> "Success"] >>

\* The Sequence of three has completed once for an entity, on its tick 4,
\* and is at its third child again on tick 7.
C7_Witness ==
    \E e \in Entities :
       /\ ticks[e] = 7
       /\ trace[e] # <<>>
       /\ trace[e][1] = [node |-> Succeed3, at |-> 2, ret |-> "Running"]

\* ------------------------------------------------------------------ C8

\* C8: a call of run on a Sequence or Select runs exactly one of its direct
\* children when the cursor is on a child and none when it is past the last.
C8_OneChildPerCall ==
    \A e \in Entities : \A i \in Calls(e, "Sequence") \cup Calls(e, "Select") :
       LET n == trace[e][i].node IN
       Cardinality(ChildCalls(e, n)) = IF trace[e][i].at < Len(Funcs(n)) THEN 1 ELSE 0

\* A pass in which the Select ran its first branch for one entity, which
\* failed, and no branch for the other, whose cursor was past the last.
C8_Witness ==
    \E a, b \in Entities :
       /\ trace[a] = << [node |-> InputSelect, at |-> 0, ret |-> "Running"],
                        [node |-> Funcs(InputSelect)[1], at |-> 0, ret |-> "Failure"] >>
       /\ trace[b] = << [node |-> InputSelect, at |-> 2, ret |-> "Failure"] >>

\* ------------------------------------------------------------------ C9

\* C9: a Retry(n), n >= 1, over a child that always fails, ticked for one
\* entity only, returns Failure on every n-th tick and Running on the
\* others, and its tries are 0 after every n-th tick.
C9_RetryAlwaysFailing ==
    \A r \in {RetryFail3, RetryFail2} : \A e \in TickedOn(r) :
       TickedOn(r) = {e} =>
          LET n == Forest[r].max_tries IN
          /\ tries[r] = ticks[e] % n
          /\ trace[e] # <<>> =>
                Last(e) = IF ticks[e] % n = 0 THEN "Failure" ELSE "Running"

\* The sixth tick of the only entity on Retry(3): Failure for the second time.
C9_Witness ==
    \E e \in Entities :
       /\ TickedOn(RetryFail3) = {e}
       /\ ticks[e] = 6
       /\ trace[e] # <<>> /\ Last(e) = "Failure"
       /\ tries[RetryFail3] = 0

\* ------------------------------------------------------------------ C10

\* The number of times the counter leaf under the Retry r fails.
Fails(r) == Forest[Funcs(r)[1]].until - 1

\* C10, as stated: over a child that fails k times and then succeeds, a
\* Retry(n) with k-1 < n returns Running on the first k-1 ticks and Success
\* on tick k.
C10_Original ==
    \A r \in {TestRetry, RetryOnce} : \A e \in TickedOn(r) :
       (TickedOn(r) = {e} /\ trace[e] # <<>> /\ Fails(r) - 1 < Forest[r].max_tries) =>
          /\ ticks[e] <= Fails(r) - 1 => Last(e) = "Running"
          /\ ticks[e] = Fails(r) => Last(e) = "Success"

\* C10, amended: over a child that fails k times and then succeeds, a
\* Retry(n) with k < n, ticked for one entity only, returns Running on the
\* first k ticks and Success on tick k+1, with its tries back at 0.
C10_RetryThenSuccess ==
    \A r \in {TestRetry, RetryOnce} : \A e \in TickedOn(r) :
       (TickedOn(r) = {e} /\ trace[e] # <<>> /\ Fails(r) < Forest[r].max_tries) =>
          /\ ticks[e] <= Fails(r) => Last(e) = "Running" /\ tries[r] = ticks[e]
          /\ ticks[e] = Fails(r) + 1 => Last(e) = "Success" /\ tries[r] = 0

\* The third tick of the only entity on retry(5) over the child that fails
\* twice: Success, the child having run three times.
C10_Witness ==
    \E e \in Entities :
       /\ TickedOn(TestRetry) = {e}
       /\ ticks[e] = 3
       /\ counter[e] = 3
       /\ trace[e] # <<>> /\ Last(e) = "Success"

\* ------------------------------------------------------------------ C11

\* C11: a Retry(n) over a child that fails f times, f < n, and then
\* succeeds, run for one entity until it returns something other than
\* Running: it returns Running on the first f calls and Success on call
\* f+1, each call runs the child once, so that the child has run f+1 times,
\* and the tries are back at 0.
C11_RetryDriven ==
    \A r \in {TestRetry, RetryOnce} : \A e \in TickedOn(r) :
       (TickedOn(r) = {e} /\ trace[e] # <<>> /\ Fails(r) < Forest[r].max_tries) =>
          /\ Cardinality(ChildCalls(e, r)) = 1
          /\ ticks[e] <= Fails(r) => Last(e) = "Running" /\ counter[e] = ticks[e]
          /\ ticks[e] = Fails(r) + 1 =>
                Last(e) = "Success" /\ counter[e] = Fails(r) + 1 /\ tries[r] = 0

\* retry(3) over the child that fails once has returned Success on the
\* second call, the child having run twice.
C11_Witness ==
    \E e \in Entities :
       /\ TickedOn(RetryOnce) = {e}
       /\ ticks[e] = 2
       /\ counter[e] = 2
       /\ trace[e] = << [node |-> RetryOnce, at |-> 1, ret |-> "Success"],
                        [node |-> Funcs(RetryOnce)[1], at |-> 0, ret |-> "Success"] >>
       /\ tries[RetryOnce] = 0

\* ------------------------------------------------------------------ C12

\* The entities whose tick in the last pass ran the tree rooted at r.
Callers(r) == {e \in Entities : trace[e] # <<>> /\ trace[e][1].node = r}

\* What the child of the decorator at the root returned in the entity's tick.
ChildResult(e) == trace[e][2].ret

\* C12: a Retry with max_tries = 0 returns Failure on every call in which
\* its child fails, the first included, never Running for a failed child,
\* and its tries are 0 before and after every call.
C12_RetryZero ==
    /\ tries[RetryZero] = 0
    /\ \A e \in Callers(RetryZero) :
          /\ trace[e][1].at = 0
          /\ trace[e][2].node = Funcs(RetryZero)[1]
          /\ Last(e) = ChildResult(e)

\* The first tick of an entity on the Retry(0), its child failing.
C12_Witness ==
    \E e \in Entities :
       /\ ticks[e] = 1
       /\ trace[e] = << [node |-> RetryZero, at |-> 0, ret |-> "Failure"],
                        [node |-> Funcs(RetryZero)[1], at |-> 0, ret |-> "Failure"] >>

\* ------------------------------------------------------------------ C13

\* C13: a call of Retry in which the child returns Running returns Running,
\* and where that is so for every call of a pass the tries after the pass
\* are those at the entry of each call; a call in which the child fails
\* returns Running or Failure as the tries at its entry plus one are below
\* max_tries or not, whatever calls returned Running before.
C13_RetryRunning ==
    \A r \in {RetryInput, RetryZero} : \A e \in Callers(r) :
       /\ ChildResult(e) = "Running" =>
             /\ Last(e) = "Running"
             /\ (\A o \in Callers(r) : ChildResult(o) = "Running") =>
                   tries[r] = trace[e][1].at
       /\ ChildResult(e) = "Failure" =>
             Last(e) = IF trace[e][1].at + 1 < Forest[r].max_tries
                       THEN "Running" ELSE "Failure"

\* The child of Retry(3) returns Running after two failures: the tries are
\* still 2.
C13_Witness ==
    \E e \in Entities :
       /\ Callers(RetryInput) = {e}
       /\ trace[e] = << [node |-> RetryInput, at |-> 2, ret |-> "Running"],
                        [node |-> Funcs(RetryInput)[1], at |-> 0, ret |-> "Running"] >>
       /\ tries[RetryInput] = 2

\* ------------------------------------------------------------------ C14

\* What the condition of the decorator called at i of the entity's trace
\* returned: the condition is run first.
ConditionResult(e, i) == trace[e][i + 1].ret

\* C14: a call of RetryWhile in which the condition is false returns
\* Failure and does not run the child, whatever the child returned before.
C14_RetryWhileAbort ==
    \A e \in Entities : \A i \in Calls(e, "RetryWhile") :
       LET n == trace[e][i].node IN
       /\ trace[e][i + 1].node = Forest[n].condition
       /\ ConditionResult(e, i) = "false" =>
             /\ trace[e][i].ret = "Failure"
             /\ ChildCalls(e, n) = {}

\* The condition is false on an entity's third tick.

C14_Witness ==
    \E e \in Entities :
       /\ ticks[e] = 3
       /\ trace[e] = << [node |-> RetryWhileInput, at |-> 0, ret |-> "Failure"],
                        [node |-> Forest[RetryWhileInput].condition, at |-> 0,
                         ret |-> "false"] >>

\* ------------------------------------------------------------------ C15

\* The number below which the condition of test_retry_while holds.
Limit == Forest[Forest[TestRetryWhile].condition].until

\* C15: a call of RetryWhile in which the condition is true runs the child
\* once and returns Success if the child returned Success and Running if it
\* returned Failure or Running; and with the condition `counter < 5` over
\* the child that counts its runs, the calls for an entity return Running
\* five times and Failure from then on, the child having run five times.
C15_RetryWhileRetries ==
    /\ \A e \in Entities : \A i \in Calls(e, "RetryWhile") :
          LET n == trace[e][i].node IN
          ConditionResult(e, i) = "true" =>
             /\ ChildCalls(e, n) = {i + 2}
             /\ trace[e][i + 2].node = Funcs(n)[1]
             /\ trace[e][i].ret =
                   IF trace[e][i + 2].ret = "Success" THEN "Success" ELSE "Running"
    /\ \A e \in Callers(TestRetryWhile) :
          /\ counter[e] = IF ticks[e] < Limit THEN ticks[e] ELSE Limit
          /\ Last(e) = IF ticks[e] <= Limit THEN "Running" ELSE "Failure"

\* The sixth call on the tree of test_retry_while returns Failure, the
\* child having run five times.
C15_Witness ==
    \E e \in Callers(TestRetryWhile) :
       /\ ticks[e] = 6
       /\ Last(e) = "Failure"
       /\ counter[e] = 5

\* ------------------------------------------------------------------ C16

\* C16: a call of RunIf in which the condition is false does not run the
\* child and returns short_circuit, which is Success for run_if; a call in
\* which the condition is true runs the child once and returns what the
\* child returned.
C16_RunIf ==
    /\ Forest[Funcs(InvertRunIf)[1]].short_circuit = "Success"
    /\ \A e \in Entities : \A i \in Calls(e, "RunIf") :
          LET n == trace[e][i].node IN
          /\ trace[e][i + 1].node = Forest[n].condition
          /\ ConditionResult(e, i) = "false" =>
                /\ ChildCalls(e, n) = {}
                /\ trace[e][i].ret = Forest[n].short_circuit
          /\ ConditionResult(e, i) = "true" =>
                /\ ChildCalls(e, n) = {i + 2}
                /\ trace[e][i + 2].node = Funcs(n)[1]
                /\ trace[e][i].ret = trace[e][i + 2].ret

\* The condition is false over the child that panics when run: the call
\* returns the short_circuit, here Running, and nothing has panicked.
C16_Witness ==
    \E e \in Entities :
       /\ trace[e] = << [node |-> RunIfGuard, at |-> 0, ret |-> "Running"],
                        [node |-> Forest[RunIfGuard].condition, at |-> 0,
                         ret |-> "false"] >>
       /\ ~panicked

\* ------------------------------------------------------------------ C17

\* C17: system.run_if(c).invert() and system.run_if_with_return(c,
\* Status::Failure) return the same Status on every tick on which their
\* conditions return the same and their children, where run, return the same.
C17_InvertEquivalence ==
    \A a \in Callers(InvertRunIf), b \in Callers(RunIfFailure) :
       (/\ ConditionResult(a, 2) = ConditionResult(b, 1)
        /\ ConditionResult(a, 2) = "true" => trace[a][4].ret = trace[b][3].ret)
       => Last(a) = Last(b)

\* ------------------------------------------------------------------ C18

\* C18: RunIf.initialize initializes the condition first and the child
\* second.
C18_ConditionFirst ==
    \A i, j \in DOMAIN inits :
       (\E n \in NodeIds :
           /\ Forest[n].kind = "RunIf"
           /\ inits[i] = Forest[n].condition
           /\ inits[j] = Funcs(n)[1])
       => i < j

\* ------------------------------------------------------------------ C19

\* C19: a call of Invert runs its child once and returns Success if the
\* child returned Failure, Failure if it returned Success and Running if it
\* returned Running, on every tick alike; over the child that succeeds it
\* returns Failure.
C19_Invert ==
    /\ \A e \in Entities : \A i \in Calls(e, "Invert") :
          LET n == trace[e][i].node
              child == trace[e][i + 1]
          IN  /\ ChildCalls(e, n) = {i + 1}
              /\ child.node = Funcs(n)[1]
              /\ child.ret \in Status
              /\ (trace[e][i].ret = "Success") = (child.ret = "Failure")
              /\ (trace[e][i].ret = "Failure") = (child.ret = "Success")
              /\ (trace[e][i].ret = "Running") = (child.ret = "Running")
    /\ \A e \in Callers(TestInvert) : Last(e) = "Failure"

\* The tree of test_invert, run for an entity.
C19_Witness ==
    \E e \in Entities :
       trace[e] = << [node |-> TestInvert, at |-> 0, ret |-> "Failure"],
                     [node |-> Funcs(TestInvert)[1], at |-> 0, ret |-> "Success"] >>

\* ------------------------------------------------------------------ C20

\* The Status the leaf n returned in the entity's tick.
Returned(e, n) == {trace[e][j].ret : j \in {k \in DOMAIN trace[e] : trace[e][k].node = n}}

\* C20: a leaf whose system returns a bool returns Success for true and
\* Failure for false; one whose system returns an Option<Status> returns
\* Failure for None and the Status held for Some; one whose system returns
\* a Status returns it; and a leaf whose system returns None has not panicked.
C20_IntoStatus ==
    \A e \in Entities : \A i \in DOMAIN raw[e] :
       LET n == raw[e][i].node
           value == raw[e][i].out
       IN  CASE Forest[n].out = "bool" ->
                   Returned(e, n) = {IF value THEN "Success" ELSE "Failure"}
             [] Forest[n].out = "Option" ->
                   /\ value = None => Returned(e, n) = {"Failure"} /\ ~panicked
                   /\ value # None => Returned(e, n) = {value[1]}
             [] Forest[n].out = "Status" -> Returned(e, n) = {value}

\* The leaf over Option<Status>, its system returning None.
C20_Witness ==
    \E e \in Entities :
       /\ Len(raw[e]) = 1
       /\ raw[e][1].node = OptionLeaf
       /\ raw[e][1].out = None

       /\ trace[e] = << [node |-> OptionLeaf, at |-> 0, ret |-> "Failure"] >>
       /\ ~panicked

\* ------------------------------------------------------------------ C21..C30

\* The place of x in a sequence that holds it once.
Position(seq, x) == CHOOSE i \in DOMAIN seq : seq[i] = x

\* The calls of run on node r in the entity's tick of the last pass.
RootCalls(e, r) == {k \in DOMAIN trace[e] : trace[e][k].node = r}

\* C21: within one pass the pairs the query yielded are handed to
\* behaviour_scope in non-decreasing order of their ids, pairs of the same
\* id in the order they arrived, and, unless the pass unwound, every pair
\* is handed over and the root of every pair whose id names a tree has run
\* called exactly once for the entity.
C21_SortedPass ==
    /\ \A i, j \in DOMAIN visited :
          i < j =>
             /\ visited[i].pair[2] <= visited[j].pair[2]
             /\ visited[i].pair[2] = visited[j].pair[2] =>
                   Position(arrived, visited[i].pair) < Position(arrived, visited[j].pair)
    /\ \A i \in DOMAIN visited :
          \E k \in DOMAIN arrived : arrived[k] = visited[i].pair
    /\ ~panicked =>
          /\ Len(visited) = Len(arrived)
          /\ \A i \in DOMAIN visited :
                visited[i].slot # None =>
                   Cardinality(RootCalls(visited[i].pair[1], visited[i].slot[1])) = 1

\* Entity 2 arrived before entity 1, both with the id of the same tree, and
\* both were ticked in that order; the tree is the second one created.
C21_Witness ==
    /\ ~panicked
    /\ arrived = << <<2, 1>>, <<1, 1>> >>
    /\ Len(visited) = 2
    /\ visited[1].pair = <<2, 1>>
    /\ visited[2].pair = <<1, 1>>
    /\ visited[1].slot # None
    /\ RootCalls(1, visited[1].slot[1]) # {}
    /\ RootCalls(2, visited[1].slot[1]) # {}

\* The behaviour create returned the id for.
Created(id) == handles[id + 1].behaviour

\* C22: run is never called on a node that initialize was not called on
\* before, and once an id is in the initialized set, initialize has been
\* called on every node of its tree, the children no cursor has reached
\* and the conditions included.
C22_InitializedBeforeRun ==
    /\ unready = {}
    /\ \A e \in Entities : \A k \in DOMAIN trace[e] : initCount[trace[e][k].node] > 0
    /\ \A id \in initialized :
          /\ id < Len(handles)
          /\ \A n \in Nodes(Created(id)) : initCount[n] > 0

\* Succeed2 has been ticked once: its first child ran, its second child is
\* initialized and was not reached; and the condition and the child of
\* TestRetryWhile are initialized.
C22_Witness ==
    /\ \E e \in Entities :
          /\ ticks[e] = 1
          /\ trace[e] # <<>>
          /\ trace[e][1].node = Succeed2
          /\ RootCalls(e, Funcs(Succeed2)[2]) = {}
          /\ initCount[Funcs(Succeed2)[2]] = 1
    /\ initCount[Forest[TestRetryWhile].condition] = 1
    /\ initCount[Funcs(TestRetryWhile)[1]] = 1

\* C23: in the tick of an entity in a pass, run is called at most once on
\* each node of its tree, and on nodes of that one tree only.
C23_OncePerPass ==
    \A e \in Entities :
       /\ \A j, k \in DOMAIN trace[e] : j # k => trace[e][j].node # trace[e][k].node
       /\ trace[e] # <<>> =>
             \A k \in DOMAIN trace[e] : trace[e][k].node \in Nodes(trace[e][1].node)

\* A tick of TestRetryWhile called run on the root, on its condition and on
\* its child, once each, while the other entity's tick of Succeed2 called
\* run on the Sequence and on one child.
C23_Witness ==
    \E a, b \in Entities :
       /\ Len(trace[a]) = 3
       /\ trace[a][1].node = TestRetryWhile
       /\ trace[a][2].node = Forest[TestRetryWhile].condition
       /\ trace[a][3].node = Funcs(TestRetryWhile)[1]
       /\ Len(trace[b]) = 2
       /\ trace[b][1].node = Succeed2
       /\ trace[b][2].node \in {Funcs(Succeed2)[1], Funcs(Succeed2)[2]}

\* C24: no step calls run for an entity that carries Skip, no step puts an
\* id into the initialized set unless it ticks an entity without Skip that
\* carries the id, and every pass that does not unwind ticks every entity
\* that carries no Skip and an id that names a tree: so an entity is ticked
\* again in the first pass after its Skip is removed.
C24_Skip ==
    [][ /\ \A e \in Entities : skip[e] => ticks'[e] = ticks[e]
        /\ \A id \in initialized' \ initialized :
              \E e \in Entities :
                 /\ ~skip[e]
                 /\ bid[e] = Some(id)
                 /\ ticks'[e] = ticks[e] + 1
        /\ RunTicks /\ ~panicked' =>
              \A e \in Entities :
                 (/\ bid[e] # None
                  /\ ~skip[e]
                  /\ Slot(trees, bid[e][1]) # None) => ticks'[e] = ticks[e] + 1
      ]_vars

\* Entity e was ticked once and carries Skip; the last pass yielded only the
\* other entity, which carries the same id and has been ticked twice.
C24_Witness ==
    \E e, b \in Entities :
       /\ e # b
       /\ skip[e]
       /\ ticks[e] = 1
       /\ ticks[b] = 2
       /\ bid[e] = bid[b]
       /\ arrived = << <<b, bid[b][1]>> >>

\* The entities that a pass has ticked for the tree of id.
Ticked(id) == {e \in Entities : bid[e] = Some(id) /\ ticks[e] > 0}

\* C25: the id create returns is the number of trees created before it, so
\* the ids are pairwise distinct; while nothing has unwound, the slot of an
\* id holds the behaviour it was created for; and create initializes
\* nothing: until a pass ticks an entity for the id, the id is not in the
\* initialized set and initialize was called on no node of its tree.
C25_Create ==
    /\ \A i \in DOMAIN handles : handles[i].id = i - 1
    /\ \A i, j \in DOMAIN handles : i # j => handles[i].id # handles[j].id
    /\ ~panicked =>
          /\ Len(trees) = Len(handles)
          /\ \A i \in DOMAIN handles :
                /\ Slot(trees, handles[i].id) = Some(handles[i].behaviour)
                /\ Ticked(handles[i].id) = {} =>
                      /\ handles[i].id \notin initialized
                      /\ \A n \in Nodes(handles[i].behaviour) : initCount[n] = 0

\* Two trees were created, with the ids 0 and 1; the first has been ticked
\* and is initialized, the second has not and is not.
C25_Witness ==
    /\ ~panicked
    /\ Len(handles) = 2
    /\ handles[1].id = 0
    /\ handles[2].id = 1
    /\ Ticked(0) # {}
    /\ initialized = {0}
    /\ Ticked(1) = {}
    /\ \E e \in Entities : bid[e] = Some(1)
    /\ \A n \in Nodes(handles[2].behaviour) : initCount[n] = 0

\* C26: behaviour_scope on an id that does not resolve to a stored
\* behaviour, because no tree was created for it or because the scope
\* around the call holds the behaviour of the same id, does not run its
\* scope, leaves the registry as it was and does not panic.  Of the nested
\* call recorded last: when the outer id has no slot no scope ran, and when
\* the inner id has no slot or is the outer id only the outer scope ran.
C26_ScopeNoOp ==
    scoped # None =>
       LET s == scoped[1] IN
       /\ Slot(s.trees, s.id) = None =>
             /\ s.ran = 0
             /\ s.after = s.trees
             /\ ~s.panicked
       /\ (/\ Slot(s.trees, s.id) # None
           /\ s.inner = s.id \/ Slot(s.trees, s.inner) = None) =>
             /\ s.ran = 1
             /\ s.after = s.trees
             /\ ~s.panicked

\* C27: behaviour_scope puts the behaviour back into its slot however the
\* scope ends, also when initialize or run of the behaviour panics: every
\* id that create returned resolves to the behaviour it was created for.
C27_Restored ==
    \A i \in DOMAIN handles :
       Slot(trees, handles[i].id) = Some(handles[i].behaviour)

\* C28: a pair of a pass whose id names no tree of the registry gets
\* nothing: run is called on no node for its entity, its id is not put into
\* the initialized set and nothing panics; and the pass goes on: every pair
\* that arrived is handed to behaviour_scope and the root of every pair
\* whose id names a tree has run called once.
C28_UnknownHandle ==
    \A i \in DOMAIN visited :
       visited[i].slot = None =>
          /\ trace[visited[i].pair[1]] = <<>>
          /\ raw[visited[i].pair[1]] = <<>>
          /\ visited[i].pair[2] \notin initialized
          /\ scoped = None => ~panicked
          /\ Len(visited) = Len(arrived)
          /\ \A j \in DOMAIN visited :
                visited[j].slot # None =>
                   Cardinality(RootCalls(visited[j].pair[1], visited[j].slot[1])) = 1

\* Entity 1 arrived first with an id that names no tree and entity 2 with
\* the id of a tree; the pass ticked entity 2 and nothing panicked.
C28_Witness ==
    /\ ~panicked
    /\ arrived = << <<1, MaxTrees>>, <<2, 0>> >>
    /\ Len(visited) = 2
    /\ visited[2].pair = <<1, MaxTrees>>
    /\ visited[2].slot = None
    /\ visited[1].slot # None
    /\ trace[1] = <<>>
    /\ trace[2] # <<>>
    /\ initialized = {0}

\* C29: a tree built with repeat can be created, initialized and ticked:
\* once a pass has handed a pair of its id to behaviour_scope, the id is in
\* the initialized set and run was called on the root for the entity and
\* returned a Status.
C29_Repeat ==
    \A i \in DOMAIN visited :
       visited[i].slot = Some(Repeat50) =>
          /\ visited[i].pair[2] \in initialized
          /\ \E k \in RootCalls(visited[i].pair[1], Repeat50) :
                trace[visited[i].pair[1]][k].ret \in Status

\* The tries a call of run on Retry r leaves, entered with `at` tries, when
\* its child returned res.
TriesLeft(r, at, res) ==
    CASE res = "Failure" -> IF at + 1 < Forest[r].max_tries THEN at + 1 ELSE 0
      [] res = "Success" -> 0
      [] OTHER -> at

\* The tries the tick of the i-th pair of the last pass left in Retry r.
LeftBy(r, i) ==
    LET e == visited[i].pair[1] IN TriesLeft(r, trace[e][1].at, ChildResult(e))

\* C30: the tries of a Retry are one counter for all entities: in a pass
\* that ticks RetryInput for two entities, the second tick starts with the
\* tries the first tick left (one more after a failure of the first
\* entity's child, 0 after its success) and the Retry holds the tries the
\* second tick left.
C30_SharedTries ==
    LET r == RetryInput IN
    (/\ Len(visited) = 2
     /\ visited[1].slot = Some(r)
     /\ visited[2].slot = Some(r)) =>
       /\ trace[visited[2].pair[1]][1].at = LeftBy(r, 1)
       /\ tries[r] = LeftBy(r, 2)

\* Retry(3): entity a was ticked once before entity b had the id; in the
\* last pass the child failed for a, and then for b, which was ticked for
\* the first time, entered with 2 tries and got Failure.
C30_Witness ==
    \E a, b \in Entities :
       /\ Forest[RetryInput].max_tries = 3
       /\ Len(visited) = 2
       /\ visited[1] = [pair |-> <<a, 0>>, slot |-> Some(RetryInput)]
       /\ visited[2] = [pair |-> <<b, 0>>, slot |-> Some(RetryInput)]
       /\ ticks[a] = 2
       /\ ticks[b] = 1
       /\ trace[a][1].at = 1
       /\ ChildResult(a) = "Failure"
       /\ trace[b][1] = [node |-> RetryInput, at |-> 2, ret |-> "Failure"]
       /\ tries[RetryInput] = 0

\* ------------------------------------------------------------------ C31..C37

\* C31: the cursor a Sequence or Select of n children holds for an entity
\* is between 0 and n; a call of run that found the cursor at n has left it
\* at 0; and the composite holds a cursor for every entity it has run for:
\* the entity of every call in a trace, and every entity that was ticked
\* for a tree whose root it is.
C31_CursorBounds ==
    /\ \A n \in CompositeIds : \A e \in DOMAIN indices[n] :
          indices[n][e] \in 0..Len(Funcs(n))
    /\ \A e \in Entities : \A k \in DOMAIN trace[e] :
          IsComposite(trace[e][k].node) =>
             /\ e \in DOMAIN indices[trace[e][k].node]
             /\ trace[e][k].at = Len(Funcs(trace[e][k].node)) =>
                   indices[trace[e][k].node][e] = 0
    /\ \A e \in Entities :
          (/\ ticks[e] > 0
           /\ IsComposite(Created(bid[e][1]))) => e \in DOMAIN indices[Created(bid[e][1])]

\* The last tick of entity a found the cursor of InputSequence at 2, its
\* number of children, and left it at 0, while the cursor of entity b stays
\* at 1.
C31_Witness ==
    \E a, b \in Entities :
       /\ trace[a] # <<>>
       /\ trace[a][1].node = InputSequence
       /\ trace[a][1].at = Len(Funcs(InputSequence))
       /\ indices[InputSequence][a] = 0
       /\ b \in DOMAIN indices[InputSequence]
       /\ indices[InputSequence][b] = 1

\* C32: after any number of passes that did not unwind, every slot of the
\* registry holds a behaviour, the one it was created for; there are as
\* many slots as calls of create; and the initialized set holds only ids
\* that create returned.
C32_RegistryIntegrity ==
    ~panicked =>
       /\ \A i \in DOMAIN trees : trees[i] # None
       /\ \A i \in DOMAIN handles : Slot(trees, handles[i].id) = Some(handles[i].behaviour)
       /\ Len(trees) = Len(handles)
       /\ \A id \in initialized : \E i \in DOMAIN handles : handles[i].id = id

\* The two trees of the integration test are created, both entities carry
\* the id of one of them each, and both have been ticked MaxTicks times.
C32_Witness ==
    /\ ~panicked
    /\ Len(trees) = 2
    /\ {handles[1].behaviour, handles[2].behaviour} = {BasicSequence, BasicSelect}
    /\ initialized = {0, 1}
    /\ bid[1] # bid[2]
    /\ \A e \in Entities : ticks[e] = MaxTicks
    /\ trees[1] # None
    /\ trees[2] # None

\* The Sequence under the Invert at the root of DualSelect.
DualSequence == Forest[DualSelect].funcs[1]

\* What the host systems returned to e's tree in its last tick, in the
\* order of the calls.
LeafRets(e) ==
    LET calls == SelectSeq(trace[e], LAMBDA c : Forest[c.node].kind = "Leaf")
    IN  [i \in DOMAIN calls |-> calls[i].ret]

\* C33: a Select and the inverted Sequence of its inverted branches, ticked
\* in the same pass from the same cursor with host systems that return the
\* same, return the same Status and leave the same cursor.
C33_Duality ==
    [][\A a, b \in Entities :
         (/\ RootOf(a) = InputSelect
          /\ RootOf(b) = DualSelect
          /\ ticks'[a] = ticks[a] + 1
          /\ ticks'[b] = ticks[b] + 1
          /\ Cursor(indices[InputSelect], a) = Cursor(indices[DualSequence], b)
          /\ LeafRets(a)' = LeafRets(b)')
         => /\ Last(a)' = Last(b)'
            /\ Cursor(indices'[InputSelect], a) = Cursor(indices'[DualSequence], b)]_vars

\* Both have been ticked in step: the first branch failed, and the last
\* tick ran the second from cursor 1, which succeeded and reset both cursors.
C33_Witness ==
    \E a, b \in Entities :
       /\ RootOf(a) = InputSelect
       /\ RootOf(b) = DualSelect
       /\ ticks[a] = 2
       /\ ticks[b] = 2
       /\ trace[a][1].at = 1
       /\ trace[b][2].node = DualSequence
       /\ trace[b][2].at = 1
       /\ LeafRets(a) = <<"Success">>
       /\ LeafRets(b) = <<"Success">>
       /\ Last(a) = "Success"
       /\ Last(b) = "Success"
       /\ indices[InputSelect][a] = 0
       /\ indices[DualSequence][b] = 0

\* The entities the last pass ticked.
Arrived == {arrived[i][1] : i \in DOMAIN arrived}

\* C34: a step leaves the cursors of an entity that is skipped, or that it
\* does not tick, as they are in every composite; and a tick runs each
\* composite from the cursor stored for the entity, so that an entity that
\* becomes active again continues where it was.
C34_SkipKeepsCursor ==
    [][\A e \in Entities :
         /\ (skip[e] \/ ticks'[e] = ticks[e]) =>
               \A n \in CompositeIds :
                  /\ (e \in DOMAIN indices'[n]) = (e \in DOMAIN indices[n])
                  /\ Cursor(indices'[n], e) = Cursor(indices[n], e)
         /\ ticks'[e] = ticks[e] + 1 =>
               \A k \in DOMAIN trace'[e] :
                  IsComposite(trace'[e][k].node) =>
                     trace'[e][k].at = Cursor(indices[trace'[e][k].node], e)]_vars

\* An entity that was ticked to the middle of its sequence and then skipped
\* is active again: the last pass ticked the other one without it, its
\* cursor is still 1, and its next tick is due.
C34_Witness ==
    \E e, o \in Entities :
       /\ RootOf(e) = InputSequence
       /\ ticks[e] > 0
       /\ ticks[e] < TickLimit(e)
       /\ ~skip[e]
       /\ Arrived = {o}
       /\ o # e
       /\ RootOf(o) = InputSequence
       /\ ticks[o] > ticks[e]
       /\ indices[InputSequence][e] = 1
       /\ indices[InputSequence][o] = 2

\* The tree rooted at n is built of Sequence, Select, Invert and RunIf over
\* host systems only.
IsPlain(n) ==
    \A m \in Nodes(n) :
       Forest[m].kind \in {"Sequence", "Select", "Invert", "RunIf", "Leaf", "Condition"}

\* The world after a pass in which the query yields the entities of order.
PassOf(order, in) ==
    ForEach(SortBy([i \in DOMAIN order |-> <<order[i], bid[order[i]][1]>>]),
            1, in, World)

\* What a pass returned to the driver for each of two entities.
Statuses(w, a, b) == <<w.trace[a][1].ret, w.trace[b][1].ret>>

\* C35: two entities that share a tree of Sequence, Select, Invert and
\* RunIf over host systems get the same two Statuses, and leave the same
\* cursors, whichever of them a pass visits first; where they share a
\* Retry with one try left over a child that fails, the order of the visit
\* changes a Status.
C35_OrderIndependent ==
    ~panicked =>
       \A a, b \in Active :
          (a < b /\ bid[a] = bid[b] /\ RootOf(a) # 0) =>
             /\ IsPlain(RootOf(a)) =>
                   \A in \in Inputs :
                      \A w1 \in {PassOf(<<a, b>>, in)} : \A w2 \in {PassOf(<<b, a>>, in)} :
                         (~w1.panicked /\ ~w2.panicked) =>
                            /\ Statuses(w1, a, b) = Statuses(w2, a, b)
                            /\ w1.indices = w2.indices
             /\ (RootOf(a) = RetryFail3 /\ tries[RetryFail3] = Forest[RetryFail3].max_tries - 1) =>
                   \E in \in Inputs :
                      \E w1 \in {PassOf(<<a, b>>, in)} : \E w2 \in {PassOf(<<b, a>>, in)} :
                         Statuses(w1, a, b) # Statuses(w2, a, b)

\* Two entities share the plain tree and the last pass ticked both, the
\* second of them first: it is in the middle of the sequence, inside the
\* Select under the RunIf, and the other one is back at the start.
C35_Witness ==
    /\ ~panicked
    /\ Active = {1, 2}
    /\ RootOf(1) = PlainTree
    /\ bid[1] = bid[2]
    /\ arrived = << <<2, bid[2][1]>>, <<1, bid[1][1]>> >>
    /\ DOMAIN indices[PlainTree] = {1, 2}
    /\ 2 \in DOMAIN indices[77]
    /\ indices[PlainTree][1] = 0
    /\ indices[PlainTree][2] = 1
    /\ indices[77][2] = 1
    /\ Last(1) = "Failure"
    /\ Last(2) = "Running"

\* The entities the last pass ticked on the tree rooted at r.
LastTicked(r) == {e \in TickedOn(r) : trace[e] # <<>>}

\* C36: Retry with max_tries 0 and Retry with max_tries 1 return what their
\* child returned on every tick, Failure for a child that failed and never
\* Running for it, so that they return the same wherever their children
\* do; and both leave their tries at 0.
C36_RetryZeroOne ==
    /\ tries[RetryZero] = 0
    /\ tries[RetryOne] = 0
    /\ \A e \in LastTicked(RetryZero) \cup LastTicked(RetryOne) :
          /\ Len(trace[e]) = 2
          /\ Last(e) = ChildResult(e)
    /\ \A a \in LastTicked(RetryZero), b \in LastTicked(RetryOne) :
          ChildResult(a) = ChildResult(b) => Last(a) = Last(b)

\* Both have been ticked twice, one entity each, and in the last pass both
\* children failed: both returned Failure.
C36_Witness ==
    \E a, b \in Entities :
       /\ RootOf(a) = RetryZero
       /\ RootOf(b) = RetryOne
       /\ ticks[a] = 2
       /\ ticks[b] = 2
       /\ Arrived = {a, b}
       /\ ChildResult(a) = "Failure"
       /\ ChildResult(b) = "Failure"
       /\ Last(a) = "Failure"
       /\ Last(b) = "Failure"
       /\ tries[RetryOne] = 0

\* The last call of run on the composite n of the crate bevy-behaviour-tree.
CalledOn(n) == called # None /\ called[1].node = n

\* C37: a Chain whose index is past its last child keeps the index in every
\* step, and a run of it, for any entity, returns Success and runs no
\* child; a Select in that position returns Failure, runs no child and
\* puts its index back to 0.  Before that, both run the child at the one
\* index they hold, whichever entity the call is for.
C37_ChainStaysDone ==
    [][/\ index[Chained] = Len(Funcs(Chained)) =>
             /\ index'[Chained] = index[Chained]
             /\ CalledOn(Chained)' =>
                   /\ called'[1].at = Len(Funcs(Chained))
                   /\ called'[1].ret = "Success"
                   /\ called'[1].ran = <<>>
       /\ (index[Selected] = Len(Funcs(Selected)) /\ CalledOn(Selected)') =>
             /\ index'[Selected] = 0
             /\ called'[1].ret = "Failure"
             /\ called'[1].ran = <<>>
       /\ \A n \in {Chained, Selected} :
             (index[n] < Len(Funcs(n)) /\ CalledOn(n)') =>
                called'[1].ran = <<Funcs(n)[index[n] + 1]>>]_vars

\* Every child of the chain has succeeded, and the chain was run again from
\* there for the second entity: it returned Success without running a child
\* and the index is still past the last child.
C37_Witness ==
    /\ index[Chained] = Len(Funcs(Chained))
    /\ called = Some([node |-> Chained, entity |-> 2, at |-> Len(Funcs(Chained)),
                      ran |-> <<>>, ret |-> "Success"])
    /\ index[Selected] = 0

====
